---- MODULE Spec2Model ----
(***************************************************************************)
(* Interview Evaluation Pipeline of Sleippnir/Minimalagent.                *)
(*                                                                         *)
(* Spec      the queue dispatcher (BackgroundEvaluatorAgent) polling the   *)
(*           evaluator_queue, with the transcript writer                   *)
(*           (TranscriptService.write_transcript) and                      *)
(*           EvaluationService.write_evaluation acting on the same record  *)
(*           store.                                                        *)
(* FairSpec  Spec with weak fairness on the dispatcher's steps.            *)
(* EvalSpec  EvaluationHelper.run_full_evaluation: the fan-out to the      *)
(*           three providers and the aggregation of their results.         *)
(* StoreSpec BackgroundEvaluatorAgent._store_evaluation_results applied to *)
(*           the results of one evaluation.                                *)
(*                                                                         *)
(* Scores are integers counting tenths of a point (850 is 85.0).           *)
(***************************************************************************)
EXTENDS Integers, Sequences, FiniteSets, Bags, TLC

\* ------------------------------------------------------------------ bounds
MaxTasks == 2
MaxRecords == 6
MaxMessages == 4
MaxCompactions == 2
MaxFrames == 2
MaxLog == 3
MaxEntries == 5
MaxQuestions == 4
MaxCollected == 3

\* --------------------------------------------------------------- constants
None == "None"
InterviewIds == {"i1", "i2"}
Providers == 1..3
StatusValues == {"scheduled", "completed", "evaluated"}

VARIABLES
    \* record store
    queue,              \* evaluator_queue rows, oldest first (order created_at.asc)
    status,             \* interviews.status by interview_id
    transcripts,        \* the interview_ids that have a row in the transcripts table
    evaluations,        \* rows of the evaluations table (a bag)
    \* BackgroundEvaluatorAgent
    running,            \* self.running
    pc,                 \* position of start() and of the tick it is running
    evaluation_task,    \* the task fetched by the current tick
    interview,          \* the Interview built from its payload
    evaluation_results, \* what _run_llm_evaluation returned
    \* TranscriptService.write_transcript call in progress
    writer,
    \* history of the current tick and of the tasks
    nextTaskId,         \* id given to the next row of evaluator_queue
    steps,              \* steps the current tick performed for its task
    raised,             \* step of the current tick in which an exception was raised
    processed,          \* ids of the tasks an earlier tick finished with
    \* EvaluationHelper.run_full_evaluation
    epc,                \* position of run_full_evaluation
    interview_data,     \* its argument
    content,            \* per provider call: the text of the response, if any
    provider,           \* per provider call: "pending" or how it settled
    eresult,            \* its return value
    \* a bot session and the tools the LLM calls (interview/tools/interview_tools.py)
    context_aggregator, \* _context_aggregator is set
    messages,           \* context.get_messages(): the working message list
    tool_result,        \* what the last tool call handed to params.result_callback
    frames,             \* frames pushed by end_conversation
    terminated,         \* the pipeline task has ended the session
    transcript_initialized, \* the transcript file has its header
    transcript_log,     \* lines of the transcript file
    \* history of the session
    instruction,        \* the system message the context was created with
    last_call,          \* the tool call just made and its argument
    before,             \* the working message list when that call began
    compactions,        \* number of calls that replaced the working message list
    \* an Interview domain entity (interview/evaluator/interview.py)
    source_data,        \* the payload or dictionary it was built from
    built_by,           \* the constructor or builder that made it
    interview_obj,      \* the Interview object
    build_error,        \* the exception the builder raised, if any
    \* two bot sessions in one process (interview/bots/simlibot.py)
    aggregator_owner,   \* the session whose aggregator _context_aggregator holds
    contexts,           \* each session's LLMContext message list
    caller,             \* the session whose LLM made the tool call just handled
    \* two BackgroundEvaluatorAgent instances on one evaluator_queue
    agents,             \* per instance: position, task, results, rows stored
    \* InterviewEvaluator.get_pending_evaluations (interview/evaluator_service.py)
    ppc,                \* position of the call
    tasks               \* the list it collects

storeVars == <<queue, status, transcripts, evaluations>>
agentVars == <<running, pc, evaluation_task, interview, evaluation_results>>
histVars == <<nextTaskId, steps, raised, processed>>
evalVars == <<epc, interview_data, content, provider, eresult>>
pipelineVars == <<storeVars, agentVars, writer, histVars, evalVars>>
toolVars == <<context_aggregator, messages, tool_result, frames, terminated>>
transcriptVars == <<transcript_initialized, transcript_log>>
sessionHistVars == <<instruction, last_call, before, compactions>>
sessionVars == <<toolVars, transcriptVars, sessionHistVars>>
entityVars == <<source_data, built_by, interview_obj, build_error>>
processVars == <<aggregator_owner, contexts, caller>>
fleetVars == <<agents>>
pendingVars == <<ppc, tasks>>
outsideVars == <<sessionVars, entityVars, processVars, fleetVars, pendingVars>>
vars == <<pipelineVars, outsideVars>>

\* ======================================================================
\* EvaluationHelper.run_full_evaluation (interview/evaluator/helpers.py)
\* ======================================================================

\* overall_score values a provider's evaluation document may carry (tenths)
ScoreValues == {0, 250, 700, 849, 850, 1000}

\* What one provider call can settle with:
\*   result       a parsed evaluation document (with or without a numeric
\*                overall_score)
\*   parse_error  {"raw_response": ..., "error": "Failed to parse JSON response"}
\*   api_error    {"error": "<provider> API error: ..."}
\*   no_key       {"error": "<provider> API key not configured"}
\*   raised       the coroutine raised an exception
Outcome(k, h, s) == [kind |-> k, has_score |-> h, overall_score |-> s]
ProviderOutcomes ==
    {Outcome("result", TRUE, s) : s \in ScoreValues}
    \cup {Outcome("result", FALSE, 0)}
    \cup {Outcome(k, FALSE, 0) : k \in {"parse_error", "api_error", "no_key", "raised"}}

Pending == Outcome("pending", FALSE, 0)

\* content: the stripped text of a provider's response
\*   json_object         a JSON evaluation document
\*   fenced_json_object  the same document inside a markdown code fence
\*   json_non_object     JSON that is not an object (a list, a string, null)
\*   text                anything else
\* has_score and overall_score describe the document
Content(sh, h, s) == [shape |-> sh, has_score |-> h, overall_score |-> s]
Documents ==
    {Content("json_object", TRUE, s) : s \in ScoreValues}
    \cup {Content("json_object", FALSE, 0)}
Fenced(doc) == [doc EXCEPT !.shape = "fenced_json_object"]
Contents ==
    Documents
    \cup {Fenced(doc) : doc \in Documents}
    \cup {Content("json_non_object", FALSE, 0), Content("text", FALSE, 0)}
NoContent == Content("none", FALSE, 0)

\* json.loads(content): the decoder accepts a JSON text and nothing around it
JsonLoads(c) ==
    CASE c.shape = "json_object" -> "dict"
      [] c.shape = "json_non_object" -> "not_a_dict"
      [] c.shape \in {"fenced_json_object", "text"} -> "JSONDecodeError"

\* a failed parse given the default score 0
EvaluateStructured_DefaultScore(c) ==
    IF JsonLoads(c) = "JSONDecodeError" THEN Outcome("parse_error", TRUE, 0)
    ELSE IF JsonLoads(c) = "not_a_dict" THEN Outcome("api_error", FALSE, 0)
    ELSE Outcome("result", c.has_score, c.overall_score)

\* the end of evaluate_with_<provider>_structured: result = json.loads(content)
\* and the document's keys spread into the returned dictionary; on a
\* JSONDecodeError the dictionary with "raw_response" and "error": "Failed to
\* parse JSON response". Spreading a value that is not a dictionary raises a
\* TypeError, which the outer handler turns into an API error.
EvaluateStructured(c) ==
    IF JsonLoads(c) = "JSONDecodeError" THEN Outcome("parse_error", FALSE, 0)
    ELSE IF JsonLoads(c) = "not_a_dict" THEN Outcome("api_error", FALSE, 0)
    ELSE Outcome("result", c.has_score, c.overall_score)

\* the "raw_response" key of a provider's dictionary: the content, in the
\* parsed and in the parse-error dictionary; the other error dictionaries
\* have no such key
RawResponse(o, c) ==
    IF o.kind \in {"result", "parse_error"} THEN c ELSE NoContent

\* how one provider call can settle: with a response, as the parse decides;
\* without one, by a missing key, an API error or a raised exception
ProviderCall(c) ==
    IF c = NoContent
    THEN {Outcome(k, FALSE, 0) : k \in {"api_error", "no_key", "raised"}}
    ELSE {EvaluateStructured(c)}

\* gather without return_exceptions: the first exception leaves gather at once
Gather_FirstException(p) ==
    IF \E i \in Providers : p[i].kind = "raised" THEN "raised"
    ELSE IF \A i \in Providers : p[i] # Pending THEN "done" ELSE "waiting"

\* asyncio.gather(*tasks, return_exceptions=True): the call returns once every
\* awaitable has settled; an exception is delivered as that awaitable's result.
\* "waiting", or "done" with the results in the order of the awaitables.
Gather(p) ==
    IF \A i \in Providers : p[i] # Pending THEN "done" ELSE "waiting"

\* evaluations[key] for one gathered result: an exception becomes
\* {"error": str(result)}, anything else is kept as it is.
EvaluationEntry(r) ==
    IF r.kind = "raised" THEN Outcome("error", FALSE, 0) ELSE r

\* "overall_score" in result and isinstance(result["overall_score"], (int, float))
IsValidScore(r) == r.kind # "raised" /\ r.has_score

RECURSIVE SumSeq(_)
SumSeq(s) == IF s = <<>> THEN 0 ELSE Head(s) + SumSeq(Tail(s))

\* scores: the valid overall scores, in provider order
Scores(results) ==
    LET F[i \in 0..Len(results)] ==
            IF i = 0 THEN <<>>
            ELSE IF IsValidScore(results[i])
                 THEN Append(F[i-1], results[i].overall_score)
                 ELSE F[i-1]
    IN F[Len(results)]

\* the sum divided by the number of providers instead of the number of scores
OverallScore_DivideByProviders(scores) ==
    IF Len(scores) > 0 THEN <<SumSeq(scores), Cardinality(Providers)>> ELSE <<0, 1>>

\* overall_score = sum(scores) / len(scores) if scores else 0, the quotient
\* kept exact as the pair <<numerator, denominator>>
OverallScore(scores) ==
    IF Len(scores) > 0 THEN <<SumSeq(scores), Len(scores)>> ELSE <<0, 1>>

\* the thresholds with exclusive lower bounds
Recommendation_ExclusiveBounds(mean) ==
    IF mean[1] > 850 * mean[2] THEN "Strong Yes"
    ELSE IF mean[1] > 700 * mean[2] THEN "Maybe"
    ELSE "No"

\* the thresholds, applied to the unrounded mean
Recommendation(mean) ==
    IF mean[1] >= 850 * mean[2] THEN "Strong Yes"
    ELSE IF mean[1] >= 700 * mean[2] THEN "Maybe"
    ELSE "No"

\* round(overall_score, 1): the nearest tenth. A mean that lies exactly half
\* way between two tenths is not a binary floating-point value, so which
\* neighbour the built-in returns depends on the operands: both are possible.
Round1(mean) ==
    LET q == mean[1] \div mean[2]
        r == mean[1] % mean[2]
    IN IF 2 * r < mean[2] THEN {q}
       ELSE IF 2 * r > mean[2] THEN {q + 1}
       ELSE {q, q + 1}

EngineResult(k, ev, s, rec, err) ==
    [kind |-> k, evaluations |-> ev, overall_score |-> s,
     recommendation |-> rec, error |-> err]

\* if not transcript or not job_data: return {... "Missing data for evaluation"}
MissingData(d) == ~d.transcript \/ ~d.job
MissingDataResult ==
    EngineResult("missing_data", <<>>, 0, "Missing data for evaluation", TRUE)

\* except Exception: return {"overall_score": 0, "recommendation": "Evaluation failed", ...}
EvaluationFailedResult ==
    EngineResult("failed", <<>>, 0, "Evaluation failed", TRUE)

\* the loop over the gathered results, the mean, the thresholds and the
\* returned dictionary
ProcessResults(results) ==
    LET evs == [i \in Providers |-> EvaluationEntry(results[i])]
        mean == OverallScore(Scores(results))
    IN {EngineResult("aggregated", evs, s, Recommendation(mean), FALSE) :
            s \in Round1(mean)}

\* run_full_evaluation as a whole: the possible return values for an argument
\* and the way the three provider calls settle
RunFullEvaluation(d, results) ==
    IF MissingData(d) THEN {MissingDataResult}
    ELSE IF Gather(results) = "raised" THEN {EvaluationFailedResult}
    ELSE ProcessResults(results)

\* ======================================================================
\* The record store and the queue
\* ======================================================================

\* shapes of the payload column of an evaluator_queue row
\*   empty          missing, null or {}
\*   complete       a mapping with a transcript
\*   not_mapping    the payload, or one of its nested parts, is not a mapping
PayloadKinds == {"empty", "complete", "not_mapping"}

Task(id, iid, p) == [id |-> id, interview_id |-> iid, payload |-> p]
NoTask == Task(0, None, "empty")

\* the rows the producer may append: a row without interview_id, or a row for
\* an interview with any payload
QueueRows ==
    {<<None, "complete">>} \cup (InterviewIds \X PayloadKinds)

ModelNames == <<"gpt-4o", "gemini-2.5-flash", "deepseek-chat">>

Score(present, v) == [present |-> present, value |-> v]

\* a row of the evaluations table (Evaluation.to_dict)
Evaluation(iid, model, score, raw) ==
    [interview_id |-> iid, evaluator_llm_model |-> model, score |-> score,
     raw_llm_response |-> raw]

\* QueueService.get_next_evaluation_task: a GET of evaluator_queue with limit 1,
\* ordered by created_at ascending. Nothing is removed from the queue. A failed
\* request is caught there and reported as "no task".
GetNextEvaluationTask(q, requestFails) ==
    IF requestFails \/ q = <<>> THEN NoTask ELSE Head(q)

\* ======================================================================
\* BackgroundEvaluatorAgent (background_evaluator.py)
\* ======================================================================

NoInterview == [built |-> FALSE, transcript |-> FALSE]

\* _create_interview_from_payload: the Interview built from a payload
\* (only what the evaluation reads from it is kept)
CreateInterviewFromPayload(payload) ==
    [built |-> TRUE, transcript |-> (payload = "complete")]

\* the provider calls run_full_evaluation makes for an argument: none when it
\* returns early
Settlements(d) ==
    IF MissingData(d) THEN {[i \in Providers |-> Pending]}
    ELSE [Providers -> ProviderOutcomes]

\* payload.get(...) on something that is not a mapping raises AttributeError
BuildRaises(payload) == payload = "not_mapping"

\* the dictionary _run_llm_evaluation passes to run_full_evaluation: its keys
\* are interview_id, transcript, job_description and rubric; there is no "job"
InterviewData(iv) == [transcript |-> iv.transcript, job |-> FALSE]

Results(has, evs, s, rec, err) ==
    [has_evaluations |-> has, evaluation |-> evs, overall_score |-> s,
     recommendation |-> rec, error |-> err]
NoResults == Results(FALSE, <<>>, 0, "", FALSE)

\* _run_llm_evaluation, try branch: the one result of run_full_evaluation is
\* returned under each of evaluation_1, evaluation_2 and evaluation_3
WrapResult(r) ==
    Results(TRUE, [k \in Providers |-> r], r.overall_score, r.recommendation, FALSE)

\* _run_llm_evaluation, except branch: no evaluation_N key at all
ErrorResults == Results(FALSE, <<>>, 0, "Evaluation failed", TRUE)

\* the store's handler missing: its exception leaves the tick
CatchSite_StoreUncaught(step) ==
    CASE step = "fetch" -> "no_task"
      [] step = "build" -> "return_false"
      [] step = "evaluate" -> "error_results"
      [] OTHER -> "propagate"

\* where an exception raised in a step of the tick is caught:
\*   fetch     in get_next_evaluation_task (the tick sees "no task")
\*   build          in _process_evaluation_task (return False)
\*   store, status  in _store_evaluation_results (return False)
\*   evaluate  in _run_llm_evaluation (an error dictionary is returned and the
\*             tick goes on to the store)
CatchSite(step) ==
    CASE step = "fetch" -> "no_task"
      [] step = "build" -> "return_false"
      [] step = "evaluate" -> "error_results"
      [] step = "store" -> "return_false"
      [] step = "status" -> "return_false"
      [] OTHER -> "propagate"

\* SupabaseBaseRepository.create: the insert adds a row; rows are never
\* replaced
Create(table, row) == table (+) SetToBag({row})

\* score=eval_data.get("overall_score") or eval_data.get("score")
RecordScore(eval_data) ==
    IF eval_data.overall_score # 0 THEN Score(TRUE, eval_data.overall_score)
    ELSE Score(FALSE, 0)

\* the status advanced only when every provider delivered a document
UpdateData_AllProvidersOk(res) ==
    IF /\ res.has_evaluations
       /\ res.evaluation[1].kind = "aggregated"
       /\ \A i \in Providers : res.evaluation[1].evaluations[i].kind = "result"
    THEN "evaluated" ELSE "completed"

\* update_data = {"status": "evaluated"}: the same for every outcome of the
\* evaluation
UpdateData(res) == "evaluated"

\* evaluation_results.get("evaluation_k") is truthy
HasEvaluation(res, k) == res.has_evaluations


\* ======================================================================
\* The Interview domain entity (interview/evaluator/interview.py) and the
\* dispatcher's payload builder (background_evaluator.py)
\* ======================================================================

\* An optional value is a sequence of no element or one element.
Absent == <<>>
Get(opt, default) == IF opt = Absent THEN default ELSE opt[1]

\* Candidate.__init__ keeping the names it is given
Candidate_KeepsName(first_name, last_name) ==
    [original_first_name |-> first_name, original_last_name |-> last_name,
     first_name |-> first_name, last_name |-> last_name]

\* Candidate.__init__: the names are kept aside, the public ones are fixed
Candidate(first_name, last_name) ==
    [original_first_name |-> first_name, original_last_name |-> last_name,
     first_name |-> "Candidate", last_name |-> "A"]

\* Candidate.to_dict
CandidateToDict(c) == [first_name |-> c.first_name, last_name |-> c.last_name]

Job(title, description) == [title |-> title, description |-> description]
TranscriptEntry(speaker, text) == [speaker |-> speaker, text |-> text]
TranscriptData(full_text, structured) ==
    [full_text_transcript |-> full_text, structured_transcript |-> structured]
QuestionAnswer(position, question_text, ideal_answer) ==
    [position |-> position, question_text |-> question_text,
     ideal_answer |-> ideal_answer]

\* str.title() on the speakers that occur
Title(speaker) ==
    CASE speaker = "interviewer" -> "Interviewer"
      [] speaker = "candidate" -> "Candidate"
      [] speaker = "unknown" -> "Unknown"
      [] OTHER -> speaker

\* f"**{speaker.title()}:** '{text}'"
EntryText(speaker, text) == "**" \o Title(speaker) \o ":** '" \o text \o "'"

\* "\n\n".join(...) over the entries of a structured transcript
RECURSIVE JoinEntries(_)
JoinEntries(entries) ==
    IF entries = <<>> THEN ""
    ELSE IF Len(entries) = 1 THEN EntryText(entries[1].speaker, entries[1].text)
    ELSE JoinEntries(SubSeq(entries, 1, Len(entries) - 1)) \o "\n\n"
             \o EntryText(entries[Len(entries)].speaker, entries[Len(entries)].text)

\* Interview._default_* : what the constructor puts where an argument is
\* missing or falsy
DefaultCandidate == Candidate("John", "Smith")
DefaultJob == Job("Senior Software Engineer", "default description")
DefaultTranscriptEntries ==
    <<TranscriptEntry("interviewer", "q1"), TranscriptEntry("candidate", "a1"),
      TranscriptEntry("interviewer", "q2"), TranscriptEntry("candidate", "a2")>>
DefaultTranscriptData ==
    TranscriptData(JoinEntries(DefaultTranscriptEntries), DefaultTranscriptEntries)
DefaultQuestionsAndAnswers ==
    <<QuestionAnswer(1, "challenging project", "ideal 1"),
      QuestionAnswer(2, "disagreement", "ideal 2")>>

\* Interview.__init__: each argument "or" its default. An object argument is
\* always truthy; an empty list of questions is falsy. questions_answers is
\* the attribute the payload builder sets afterwards.
Interview(candidate, job, transcript_data, questions_and_answers) ==
    [built |-> TRUE,
     candidate |-> Get(candidate, DefaultCandidate),
     job |-> Get(job, DefaultJob),
     transcript_data |-> Get(transcript_data, DefaultTranscriptData),
     questions_and_answers |->
        IF questions_and_answers = <<>> THEN DefaultQuestionsAndAnswers
        ELSE questions_and_answers,
     questions_answers |-> Absent]

NoInterviewObject ==
    [built |-> FALSE, candidate |-> DefaultCandidate, job |-> DefaultJob,
     transcript_data |-> TranscriptData("", <<>>),
     questions_and_answers |-> <<>>, questions_answers |-> Absent]

\* Interview.to_llm_evaluation_format
ToLlmEvaluationFormat(iv) ==
    [candidate |-> CandidateToDict(iv.candidate),
     job |-> iv.job,
     transcript_data |-> iv.transcript_data,
     questions_and_answers |-> iv.questions_and_answers]

\* Interview.to_dict: the same, with the evaluation results and the timestamps
ToDict(iv) ==
    [llm |-> ToLlmEvaluationFormat(iv), evaluation_1 |-> Absent,
     evaluation_2 |-> Absent, evaluation_3 |-> Absent]

\* ------------------------------------------------ what an Interview is built from
\* An item of a list in a payload is a mapping (dict) or something else.
Item(speaker, text) == [dict |-> TRUE, speaker |-> speaker, text |-> text]
NotAMapping == [dict |-> FALSE, speaker |-> "", text |-> ""]
QAItem(position, question_text) ==
    [dict |-> TRUE, position |-> position, question_text |-> question_text,
     ideal_answer |-> "ideal"]
QANotAMapping == [dict |-> FALSE, position |-> 0, question_text |-> "", ideal_answer |-> ""]

CandidateData ==
    {Absent, <<[first_name |-> "Ada", last_name |-> "Lovelace"]>>,
     <<[first_name |-> "Bob", last_name |-> "Lovelace"]>>}
JobData == {Absent, <<Job("Engineer", "builds things")>>}
FullTexts == {"", "free text", EntryText("candidate", "a1")}
StructuredData ==
    {<<>>, <<Item("candidate", "a1")>>, <<NotAMapping, Item("candidate", "a1")>>}
TranscriptPayloads ==
    {Absent} \cup {<<[full_text_transcript |-> ft, structured_transcript |-> st]>> :
                      ft \in FullTexts, st \in StructuredData}
QAData ==
    {<<>>, <<QAItem(1, "q1")>>, <<QAItem(1, "q1"), QAItem(2, "q2")>>,
     <<QANotAMapping, QAItem(3, "q3")>>, <<QAItem(1, "q1"), QAItem(3, "q3")>>}

\* the payload column of an evaluator_queue row, a mapping
Payloads ==
    [candidate : CandidateData, job : JobData, transcript_data : TranscriptPayloads,
     questions_and_answers : QAData]

\* dictionaries given to Interview.from_dict: every item is a mapping
Dicts ==
    {d \in Payloads :
        /\ \A i \in 1..Len(d.questions_and_answers) : d.questions_and_answers[i].dict
        /\ d.transcript_data # Absent =>
              \A i \in 1..Len(d.transcript_data[1].structured_transcript) :
                  d.transcript_data[1].structured_transcript[i].dict}

\* A legacy full_transcript is text in blocks separated by blank lines; a
\* block starts with a speaker prefix or not, and its text is quoted or not.
Block(prefix, quoted, text) == [prefix |-> prefix, quoted |-> quoted, text |-> text]
BlockText(b) ==
    (IF b.prefix = "" THEN "" ELSE b.prefix \o " ")
        \o (IF b.quoted THEN "'" \o b.text \o "'" ELSE b.text)
RECURSIVE LegacyFullText(_)
LegacyFullText(blocks) ==
    IF blocks = <<>> THEN ""
    ELSE IF Len(blocks) = 1 THEN BlockText(blocks[1])
    ELSE LegacyFullText(SubSeq(blocks, 1, Len(blocks) - 1)) \o "\n\n"
             \o BlockText(blocks[Len(blocks)])
LegacyTranscripts ==
    {<<>>,
     <<Block("**Interviewer:**", TRUE, "q1"), Block("**Candidate:**", TRUE, "a1")>>,
     <<Block("**Interviewer:**", FALSE, "q1"), Block("**Candidate:**", FALSE, "a1")>>,
     <<Block("", FALSE, "free text"), Block("**Candidate:**", TRUE, "a1")>>}

\* the dict entries of a list, as TranscriptEntry objects
RECURSIVE Entries(_)
Entries(items) ==
    IF items = <<>> THEN <<>>
    ELSE (IF Head(items).dict
          THEN <<TranscriptEntry(Head(items).speaker, Head(items).text)>>
          ELSE <<>>) \o Entries(Tail(items))

\* the dict entries of a list, as QuestionAnswer objects
RECURSIVE QuestionAnswers(_)
QuestionAnswers(items) ==
    IF items = <<>> THEN <<>>
    ELSE (IF Head(items).dict
          THEN <<QuestionAnswer(Head(items).position, Head(items).question_text,
                                Head(items).ideal_answer)>>
          ELSE <<>>) \o QuestionAnswers(Tail(items))

\* BackgroundEvaluatorAgent._create_interview_from_payload on a mapping, in
\* full: the Interview is constructed without its questions, and the
\* questions of the payload are then stored under questions_answers
InterviewFromPayload(payload) ==
    LET candidate_data == Get(payload.candidate, [first_name |-> "Unknown", last_name |-> "Unknown"])
        job == Get(payload.job, Job("Unknown Position", "No description available"))
        transcript_payload ==
            Get(payload.transcript_data,
                [full_text_transcript |-> "", structured_transcript |-> <<>>])
        transcript ==
            TranscriptData(transcript_payload.full_text_transcript,
                           Entries(transcript_payload.structured_transcript))
        questions_answers == QuestionAnswers(payload.questions_and_answers)
        interview_0 ==
            Interview(<<Candidate(candidate_data.first_name, candidate_data.last_name)>>,
                      <<job>>, <<transcript>>, <<>>)
    IN IF questions_answers # <<>>
       THEN [interview_0 EXCEPT !.questions_answers = <<questions_answers>>]
       ELSE interview_0

\* Interview.from_dict
FromDict(data) ==
    LET candidate_data == Get(data.candidate, [first_name |-> "Unknown", last_name |-> "Unknown"])
        transcript_dict ==
            Get(data.transcript_data,
                [full_text_transcript |-> "", structured_transcript |-> <<>>])
    IN Interview(<<Candidate(candidate_data.first_name, candidate_data.last_name)>>,
                 <<Get(data.job, Job("", ""))>>,
                 <<TranscriptData(transcript_dict.full_text_transcript,
                                  Entries(transcript_dict.structured_transcript))>>,
                 QuestionAnswers(data.questions_and_answers))

\* from_legacy_format's parsing of full_transcript: a block with a speaker
\* prefix becomes an entry whose text has lost its quotes, any other block is
\* dropped
RECURSIVE ParseLegacy(_)
ParseLegacy(blocks) ==
    IF blocks = <<>> THEN <<>>
    ELSE (CASE Head(blocks).prefix = "**Interviewer:**" ->
                  <<TranscriptEntry("interviewer", Head(blocks).text)>>
            [] Head(blocks).prefix = "**Candidate:**" ->
                  <<TranscriptEntry("candidate", Head(blocks).text)>>
            [] OTHER -> <<>>) \o ParseLegacy(Tail(blocks))

\* Interview.from_legacy_format
FromLegacyFormat(blocks) ==
    Interview(<<Candidate("Unknown", "Candidate")>>, <<Job("Position", "")>>,
              <<TranscriptData(LegacyFullText(blocks), ParseLegacy(blocks))>>,
              <<QuestionAnswer(1, "General interview questions",
                               "Evaluate based on transcript content")>>)

\* Interview.add_transcript_entry
AddTranscriptEntryTo(iv, speaker, text) ==
    LET td == iv.transcript_data
        new_entry_text == EntryText(speaker, text)
    IN [iv EXCEPT !.transcript_data =
           TranscriptData(IF td.full_text_transcript # ""
                          THEN td.full_text_transcript \o "\n\n" \o new_entry_text
                          ELSE new_entry_text,
                          Append(td.structured_transcript, TranscriptEntry(speaker, text)))]

\* Interview.add_question_answer: position = len(self.questions_and_answers) + 1
AddQuestionAnswerTo(iv, question_text, ideal_answer) ==
    LET position == Len(iv.questions_and_answers) + 1
    IN [iv EXCEPT !.questions_and_answers =
           Append(@, QuestionAnswer(position, question_text, ideal_answer))]

\* the dictionary _run_llm_evaluation hands to run_full_evaluation: it has no
\* "candidate" and no "job"
LlmEvaluationData(iv) ==
    [transcript |-> iv.transcript_data.full_text_transcript,
     job_description |-> iv.job.description, candidate |-> Absent, job |-> Absent]

\* evaluation_input of run_full_evaluation, the request the providers are
\* sent: none when the function returns early
EvaluationInput(d) ==
    IF d.transcript = "" \/ d.job = Absent THEN Absent
    ELSE <<[candidate |-> Get(d.candidate, [first_name |-> "Candidate", last_name |-> "A"]),
            job |-> d.job[1],
            structured_transcript |-> <<TranscriptEntry("candidate", d.transcript)>>]>>

\* payload values that are not mappings: a string, a list
NonMappings == {"a string", "a list"}

\* payload.get("candidate", {}) on a value without a get method
BuilderError(payload) ==
    IF payload \in NonMappings THEN "AttributeError" ELSE "none"

NoSource == [payload |-> <<>>, blocks |-> <<>>]
EntityIdle ==
    /\ source_data = NoSource
    /\ built_by = "none"
    /\ interview_obj = NoInterviewObject
    /\ build_error = "none"

\* ======================================================================
\* A bot session: the working message list, the tools the LLM calls
\* (interview/tools/interview_tools.py) and the transcript file
\* (interview/bots/simlibot.py)
\* ======================================================================

Message(r, c) == [role |-> r, content |-> c]

\* messages = [{"role": "system", "content": interviewer_prompt}]
SystemInstruction == Message("system", "prompt")

\* what the aggregator pair appends to the context during a turn
TurnMessages == {Message("user", "answer"), Message("assistant", "question")}

\* message lists a context handed to set_context_aggregator may hold: the one
\* the bots create, and lists that have no system message
InitialMessages ==
    {<<SystemInstruction>>, <<>>, <<Message("assistant", "question")>>}

\* the arguments of a clean_context_and_summarize call: "summary" missing,
\* empty, or a text
Missing == "<missing>"
Arguments == {Missing, "", "s1", "s2"}

\* summary = params.arguments.get("summary", "")
Summary(arguments) == IF arguments = Missing THEN "" ELSE arguments

\* the error checks with the aggregator tested before the summary
ToolError_AggregatorFirst(summary, aggregator) ==
    IF ~aggregator THEN "Context aggregator not available"
    ELSE IF summary = "" THEN "Summary is required"
    ELSE "none"

\* if not summary: "Summary is required"; if not _context_aggregator:
\* "Context aggregator not available"
ToolError(summary, aggregator) ==
    IF summary = "" THEN "Summary is required"
    ELSE IF ~aggregator THEN "Context aggregator not available"
    ELSE "none"

\* next((msg for msg in current_messages if msg["role"] == "system"), None),
\* as a list of no message or one message
InitialSystemMsg(current_messages) ==
    LET S == {i \in 1..Len(current_messages) : current_messages[i].role = "system"}
    IN IF S = {} THEN <<>>
       ELSE <<current_messages[CHOOSE i \in S : \A j \in S : i <= j]>>

\* f"Interview Progress Summary: {summary}" as a system message
SummaryMessage(summary) ==
    Message("system", "Interview Progress Summary: " \o summary)

\* every system message is kept instead of the first one
CleanedMessages_KeepEverySystem(current_messages, summary) ==
    SelectSeq(current_messages, LAMBDA m : m.role = "system")
        \o <<SummaryMessage(summary)>>

\* cleaned_messages: the first system message, if any, then the summary
CleanedMessages(current_messages, summary) ==
    InitialSystemMsg(current_messages) \o <<SummaryMessage(summary)>>

ToolResult(st, msg, removed, remaining) ==
    [status |-> st, message |-> msg, messages_removed |-> removed,
     remaining_messages |-> remaining]
NoToolResult == ToolResult("none", "", 0, 0)

NoCall == [name |-> "none", arguments |-> ""]

SessionIdle ==
    /\ context_aggregator = FALSE
    /\ messages = <<>>
    /\ tool_result = NoToolResult
    /\ frames = <<>>
    /\ terminated = FALSE
    /\ transcript_initialized = FALSE
    /\ transcript_log = <<>>
    /\ instruction = <<>>
    /\ last_call = NoCall
    /\ before = <<>>
    /\ compactions = 0

\* the bot sessions of one process; no session has set the module's
\* _context_aggregator yet
Sessions == 1..2
NoSession == 0
ProcessIdle ==
    /\ aggregator_owner = NoSession
    /\ contexts = [s \in Sessions |-> <<>>]
    /\ caller = NoSession

\* the dispatcher instances that poll the same evaluator_queue
Agents == 1..2
Agent(p, t, r, n) ==
    [pc |-> p, evaluation_task |-> t, evaluation_results |-> r, stored |-> n]
FleetIdle ==
    agents = [a \in Agents |-> Agent("constructed", NoTask, NoResults, 0)]

\* get_pending_evaluations has not been called
PendingIdle ==
    /\ ppc = "idle"
    /\ tasks = <<>>

EvalIdle ==
    /\ epc = "idle"
    /\ interview_data = [transcript |-> FALSE, job |-> FALSE]
    /\ content = [i \in Providers |-> NoContent]
    /\ provider = [i \in Providers |-> Pending]
    /\ eresult = MissingDataResult

Init ==
    /\ queue = <<>>
    /\ status = [i \in InterviewIds |-> "scheduled"]
    /\ transcripts = {}
    /\ evaluations = EmptyBag
    /\ running = FALSE
    /\ pc = "constructed"
    /\ evaluation_task = NoTask
    /\ interview = NoInterview
    /\ evaluation_results = NoResults
    /\ writer = [interview_id |-> None, stage |-> "idle", result |-> "none"]
    /\ nextTaskId = 1
    /\ steps = <<>>
    /\ raised = "none"
    /\ processed = {}
    /\ EvalIdle
    /\ SessionIdle
    /\ EntityIdle
    /\ ProcessIdle
    /\ FleetIdle
    /\ PendingIdle

\* ---------------------------------------------------------- the queue's producer
\* The collaborator that fills evaluator_queue appends a row; the dispatcher
\* has no say in what the row holds.
Enqueue(iid, p) ==
    /\ nextTaskId <= MaxTasks
    /\ queue' = Append(queue, Task(nextTaskId, iid, p))
    /\ nextTaskId' = nextTaskId + 1
    /\ UNCHANGED <<status, transcripts, evaluations, agentVars, writer,
                   steps, raised, processed, evalVars, outsideVars>>

\* ------------------------------------------------------------------- start / stop
\* start(): self.running = True, then the loop
Start ==
    /\ pc = "constructed"
    /\ running' = TRUE
    /\ pc' = "loop"
    /\ UNCHANGED <<storeVars, evaluation_task, interview, evaluation_results,
                   writer, histVars, evalVars, outsideVars>>

\* stop(): self.running = False
Stop ==
    /\ running
    /\ running' = FALSE
    /\ UNCHANGED <<storeVars, pc, evaluation_task, interview, evaluation_results,
                   writer, histVars, evalVars, outsideVars>>

\* while True: the flag is not read
LoopTest_IgnoresRunning ==
    /\ pc = "loop"
    /\ pc' = "fetch"
    /\ evaluation_task' = NoTask
    /\ interview' = NoInterview
    /\ evaluation_results' = NoResults
    /\ steps' = <<>>
    /\ raised' = "none"
    /\ UNCHANGED <<storeVars, running, writer, nextTaskId, processed, evalVars, outsideVars>>

\* while self.running: a new tick begins, or start() returns
LoopTest ==
    /\ pc = "loop"
    /\ pc' = IF running THEN "fetch" ELSE "returned"
    /\ evaluation_task' = NoTask
    /\ interview' = NoInterview
    /\ evaluation_results' = NoResults
    /\ steps' = <<>>
    /\ raised' = "none"
    /\ UNCHANGED <<storeVars, running, writer, nextTaskId, processed, evalVars, outsideVars>>

\* a tick that failed begins the next one at once
AfterException_NoSleep(step) ==
    CASE CatchSite(step) = "no_task" -> "loop"
      [] CatchSite(step) = "return_false" -> "loop"
      [] CatchSite(step) = "error_results" -> "store1"
      [] OTHER -> "crashed"

\* the tick ends in one of its handlers; an exception that no handler catches
\* leaves start()
AfterException(step) ==
    CASE CatchSite(step) = "no_task" -> "sleep"
      [] CatchSite(step) = "return_false" -> "sleep"
      [] CatchSite(step) = "error_results" -> "store1"
      [] OTHER -> "crashed"

\* the fetch of a tick that was started without being awaited
Fetch_NotAwaited ==
    /\ pc \in {"fetch", "evaluate"}
    /\ \E requestFails \in BOOLEAN :
         LET t == GetNextEvaluationTask(queue, requestFails) IN
         /\ evaluation_task' = t
         /\ raised' = IF requestFails THEN "fetch" ELSE "none"
         /\ IF requestFails THEN pc' = AfterException("fetch")
            ELSE IF t = NoTask THEN pc' = "sleep"
            ELSE pc' = "validate"
         /\ steps' = IF t = NoTask THEN <<>> ELSE <<"fetched">>
    /\ UNCHANGED <<storeVars, running, interview, evaluation_results, writer,
                   nextTaskId, processed, evalVars, outsideVars>>

\* _process_pending_evaluations: evaluation_task = await get_evaluation_task();
\* if not evaluation_task: return
Fetch ==
    /\ pc = "fetch"
    /\ \E requestFails \in BOOLEAN :
         LET t == GetNextEvaluationTask(queue, requestFails) IN
         /\ evaluation_task' = t
         /\ raised' = IF requestFails THEN "fetch" ELSE "none"
         /\ IF requestFails THEN pc' = AfterException("fetch")
            ELSE IF t = NoTask THEN pc' = "sleep"
            ELSE pc' = "validate"
         /\ steps' = IF t = NoTask THEN <<>> ELSE <<"fetched">>
    /\ UNCHANGED <<storeVars, running, interview, evaluation_results, writer,
                   nextTaskId, processed, evalVars, outsideVars>>

\* _process_evaluation_task: no interview_id or no payload -> return False
Validate ==
    /\ pc = "validate"
    /\ IF evaluation_task.interview_id = None \/ evaluation_task.payload = "empty"
       THEN /\ pc' = "sleep"
            /\ steps' = Append(steps, "failed")
       ELSE /\ pc' = "build"
            /\ UNCHANGED steps
    /\ UNCHANGED <<storeVars, running, evaluation_task, interview,
                   evaluation_results, writer, nextTaskId, raised, processed, evalVars, outsideVars>>

\* interview = self._create_interview_from_payload(payload)
Build ==
    /\ pc = "build"
    /\ IF BuildRaises(evaluation_task.payload)
       THEN /\ raised' = "build"
            /\ pc' = AfterException("build")
            /\ steps' = Append(steps, "failed")
            /\ UNCHANGED interview
       ELSE /\ interview' = CreateInterviewFromPayload(evaluation_task.payload)
            /\ pc' = "evaluate"
            /\ steps' = Append(steps, "built")
            /\ UNCHANGED raised
    /\ UNCHANGED <<storeVars, running, evaluation_task, evaluation_results,
                   writer, nextTaskId, processed, evalVars, outsideVars>>

\* evaluation_results = await self._run_llm_evaluation(interview)
Evaluate ==
    /\ pc = "evaluate"
    /\ \/ \E outs \in Settlements(InterviewData(interview)) :
            \E r \in RunFullEvaluation(InterviewData(interview), outs) :
               /\ evaluation_results' = WrapResult(r)
               /\ pc' = "store1"
               /\ steps' = Append(steps, "evaluated")
               /\ UNCHANGED raised
       \/ /\ raised' = "evaluate"
          /\ pc' = AfterException("evaluate")
          /\ evaluation_results' = ErrorResults
          /\ UNCHANGED steps
    /\ UNCHANGED <<storeVars, running, evaluation_task, interview, writer,
                   nextTaskId, processed, evalVars, outsideVars>>

StorePc(k) == <<"store1", "store2", "store3">>[k]
AfterStore(k) == IF k < 3 THEN StorePc(k + 1) ELSE "status"

\* _store_evaluation_results: if evaluation_results.get("evaluation_k"):
\*     await evaluation_repo.create(Evaluation(...))
StoreEvaluation(k) ==
    /\ pc = StorePc(k)
    /\ IF HasEvaluation(evaluation_results, k)
       THEN \/ /\ BagCardinality(evaluations) < MaxRecords
               /\ evaluations' = Create(evaluations,
                     Evaluation(evaluation_task.interview_id, ModelNames[k],
                                RecordScore(evaluation_results.evaluation[k]),
                                evaluation_results.evaluation[k]))
               /\ pc' = AfterStore(k)
               /\ steps' = IF k = 3 THEN Append(steps, "stored") ELSE steps
               /\ UNCHANGED raised
            \/ /\ raised' = "store"
               /\ pc' = AfterException("store")
               /\ steps' = Append(steps, "failed")
               /\ UNCHANGED evaluations
       ELSE /\ pc' = AfterStore(k)
            /\ UNCHANGED <<evaluations, steps, raised>>
    /\ UNCHANGED <<queue, status, transcripts, running, evaluation_task, interview, evaluation_results, writer,
                   nextTaskId, processed, evalVars, outsideVars>>

\* _store_evaluation_results: update the interviews row to status "evaluated",
\* whatever its status is; then return True
UpdateStatus ==
    /\ pc = "status"
    /\ \/ /\ status' = [status EXCEPT ![evaluation_task.interview_id] =
                                        UpdateData(evaluation_results)]
          /\ steps' = Append(steps, "acknowledged")
          /\ pc' = "sleep"
          /\ UNCHANGED raised
       \/ /\ raised' = "status"
          /\ steps' = Append(steps, "failed")
          /\ pc' = AfterException("status")
          /\ UNCHANGED status
    /\ UNCHANGED <<queue, transcripts, evaluations, running, evaluation_task,
                   interview, evaluation_results, writer, nextTaskId, processed,
                   evalVars, outsideVars>>

\* await asyncio.sleep(self.poll_interval), in the try body or in the handler
Sleep ==
    /\ pc = "sleep"
    /\ pc' = "loop"
    /\ processed' = IF evaluation_task = NoTask THEN processed
                    ELSE processed \cup {evaluation_task.id}
    /\ UNCHANGED <<storeVars, running, evaluation_task, interview,
                   evaluation_results, writer, nextTaskId, steps, raised, evalVars, outsideVars>>

Tick ==
    \/ LoopTest \/ Fetch \/ Validate \/ Build \/ Evaluate
    \/ (\E k \in Providers : StoreEvaluation(k))
    \/ UpdateStatus \/ Sleep

\* ======================================================================
\* TranscriptService.write_transcript (context_service/services.py)
\* ======================================================================

\* a failed insert that goes on to the status update
WriteTranscriptInsert_FailureContinues(iid) ==
    /\ writer.stage = "idle"
    /\ \/ /\ transcripts' = transcripts \cup {iid}
          /\ writer' = [interview_id |-> iid, stage |-> "patch", result |-> "none"]
       \/ /\ writer' = [interview_id |-> iid, stage |-> "patch", result |-> "none"]
          /\ UNCHANGED transcripts
    /\ UNCHANGED <<queue, status, evaluations, agentVars, histVars, evalVars, outsideVars>>

\* Step 1: insert the transcript row (transcript_success = True); on an
\* exception return False without reaching the status update
WriteTranscriptInsert(iid) ==
    /\ writer.stage = "idle"
    /\ \/ /\ transcripts' = transcripts \cup {iid}
          /\ writer' = [interview_id |-> iid, stage |-> "patch", result |-> "none"]
       \/ /\ writer' = [interview_id |-> None, stage |-> "idle", result |-> "False"]
          /\ UNCHANGED transcripts
    /\ UNCHANGED <<queue, status, evaluations, agentVars, histVars, evalVars, outsideVars>>

\* the status update's failure made fatal
WriteTranscriptPatch_FailureFatal ==
    /\ writer.stage = "patch"
    /\ \/ /\ status' = [status EXCEPT ![writer.interview_id] = "completed"]
          /\ writer' = [interview_id |-> None, stage |-> "idle", result |-> "True"]
       \/ /\ UNCHANGED status
          /\ writer' = [interview_id |-> None, stage |-> "idle", result |-> "False"]
    /\ UNCHANGED <<queue, transcripts, evaluations, agentVars, histVars, evalVars, outsideVars>>

\* Step 2: patch the interviews row to status "completed"; an exception is
\* reported and the call still returns True, as transcript_success is set
WriteTranscriptPatch ==
    /\ writer.stage = "patch"
    /\ \/ status' = [status EXCEPT ![writer.interview_id] = "completed"]
       \/ UNCHANGED status
    /\ writer' = [interview_id |-> None, stage |-> "idle", result |-> "True"]
    /\ UNCHANGED <<queue, transcripts, evaluations, agentVars, histVars, evalVars, outsideVars>>

\* InterviewRepository.save_transcript (context_service/interview_repository.py):
\* the insert into transcripts and, if it returned the row, the update of the
\* interview to status "completed"; an exception of either is raised again
SaveTranscript(iid) ==
    /\ \/ /\ transcripts' = transcripts \cup {iid}
          /\ status' = [status EXCEPT ![iid] = "completed"]
       \/ /\ transcripts' = transcripts \cup {iid}
          /\ UNCHANGED status
       \/ UNCHANGED <<transcripts, status>>
    /\ UNCHANGED <<queue, evaluations, agentVars, writer, histVars, evalVars, outsideVars>>

\* ======================================================================
\* EvaluationService.write_evaluation (context_service/services.py)
\* ======================================================================

\* unique_models: the evaluator models that have a row for the interview
UniqueModels(evs, iid) ==
    {row.evaluator_llm_model :
        row \in {r \in BagToSet(evs) : r.interview_id = iid}}

\* insert the row, then read the interview's rows back and, with three
\* distinct models, patch the status to "evaluated". Any exception ends the
\* call with False.
WriteEvaluation(iid, k, score) ==
    /\ BagCardinality(evaluations) < MaxRecords
    /\ LET row == Evaluation(iid, ModelNames[k], Score(TRUE, score),
                             Outcome("result", TRUE, score))
           evs == Create(evaluations, row)
       IN /\ evaluations' = evs
          /\ \/ /\ Cardinality(UniqueModels(evs, iid)) >= 3
                /\ status' = [status EXCEPT ![iid] = "evaluated"]
             \/ UNCHANGED status
    /\ UNCHANGED <<queue, transcripts, agentVars, writer, histVars, evalVars, outsideVars>>

Environment ==
    \/ \E row \in QueueRows : Enqueue(row[1], row[2])
    \/ \E iid \in InterviewIds : WriteTranscriptInsert(iid)
    \/ WriteTranscriptPatch
    \/ \E iid \in InterviewIds : SaveTranscript(iid)

Next == Start \/ Stop \/ Tick \/ Environment

Spec == Init /\ [][Next]_vars

\* the dispatcher and the queue's producer alone, no transcript being written
LoopNext ==
    \/ Start \/ Stop \/ Tick
    \/ \E row \in QueueRows : Enqueue(row[1], row[2])

LoopSpec == Init /\ [][LoopNext]_vars

\* every await of the tick returns in the end (the calls have timeouts), and
\* the sleep ends after the poll interval
LoopFairSpec == LoopSpec /\ WF_vars(Tick)

\* The dispatcher is one long-lived task of the event loop: whenever it has a
\* step to take it eventually takes it, and the queue's GET does not fail
\* forever.
FetchAnswered == Fetch /\ raised' = "none"
FairSpec == Spec /\ WF_vars(Tick) /\ SF_vars(FetchAnswered)

\* ======================================================================
\* run_full_evaluation, step by step
\* ======================================================================

EvalInit ==
    /\ queue = <<>>
    /\ status = [i \in InterviewIds |-> "scheduled"]
    /\ transcripts = {}
    /\ evaluations = EmptyBag
    /\ running = FALSE
    /\ pc = "constructed"
    /\ evaluation_task = NoTask
    /\ interview = NoInterview
    /\ evaluation_results = NoResults
    /\ writer = [interview_id |-> None, stage |-> "idle", result |-> "none"]
    /\ nextTaskId = 1
    /\ steps = <<>>
    /\ raised = "none"
    /\ processed = {}
    /\ epc = "called"
    /\ interview_data \in [transcript : BOOLEAN, job : BOOLEAN]
    /\ content = [i \in Providers |-> NoContent]
    /\ provider = [i \in Providers |-> Pending]
    /\ eresult = MissingDataResult
    /\ SessionIdle
    /\ EntityIdle
    /\ ProcessIdle
    /\ FleetIdle
    /\ PendingIdle

\* the check of the argument, then evaluator = RealLLMEvaluator() and the three
\* coroutines handed to asyncio.gather; an exception of the constructor is
\* caught by the function's own handler
CheckInput ==
    /\ epc = "called"
    /\ IF MissingData(interview_data)
       THEN /\ eresult' = MissingDataResult
            /\ epc' = "returned"
       ELSE \/ /\ epc' = "gather"
               /\ UNCHANGED eresult
            \/ /\ eresult' = EvaluationFailedResult
               /\ epc' = "returned"
    /\ UNCHANGED <<outsideVars, storeVars, agentVars, writer, histVars, interview_data, content, provider>>

\* one provider call settles, in any order with respect to the others
Settle(i, c, o) ==
    /\ epc = "gather"
    /\ provider[i] = Pending
    /\ o \in ProviderCall(c)
    /\ content' = [content EXCEPT ![i] = c]
    /\ provider' = [provider EXCEPT ![i] = o]
    /\ UNCHANGED <<outsideVars, storeVars, agentVars, writer, histVars, epc, interview_data, eresult>>

\* results = await asyncio.gather(...) returns and the results are processed;
\* an exception out of gather is caught by the function's own handler
GatherReturns ==
    /\ epc = "gather"
    /\ Gather(provider) # "waiting"
    /\ IF Gather(provider) = "raised"
       THEN eresult' = EvaluationFailedResult
       ELSE \E r \in ProcessResults(provider) : eresult' = r
    /\ epc' = "returned"
    /\ UNCHANGED <<outsideVars, storeVars, agentVars, writer, histVars, interview_data, content, provider>>

EvalNext ==
    \/ CheckInput
    \/ \E i \in Providers, c \in Contents \cup {NoContent} :
          \E o \in ProviderCall(c) : Settle(i, c, o)
    \/ GatherReturns

EvalSpec == EvalInit /\ [][EvalNext]_vars

\* ======================================================================
\* _store_evaluation_results applied to the results of one evaluation
\* ======================================================================

\* what _run_llm_evaluation can hand to the store: an error dictionary, or one
\* return value of run_full_evaluation under the three evaluation keys
StoreInputs ==
    {ErrorResults}
    \cup {WrapResult(r) :
            r \in UNION {RunFullEvaluation(d, outs) :
                            d \in [transcript : BOOLEAN, job : BOOLEAN],
                            outs \in [Providers -> ProviderOutcomes]}}

StoreInit ==
    /\ queue = <<>>
    /\ status \in [InterviewIds -> {"scheduled", "completed"}]
    /\ transcripts = {i \in InterviewIds : status[i] = "completed"}
    /\ evaluations = EmptyBag
    /\ running = TRUE
    /\ pc = "store1"
    /\ evaluation_task \in {Task(1, i, "complete") : i \in InterviewIds}
    /\ interview = CreateInterviewFromPayload("complete")
    /\ evaluation_results \in StoreInputs
    /\ writer = [interview_id |-> None, stage |-> "idle", result |-> "none"]
    /\ nextTaskId = 1
    /\ steps = <<"fetched", "built", "evaluated">>
    /\ raised = "none"
    /\ processed = {}
    /\ EvalIdle
    /\ SessionIdle
    /\ EntityIdle
    /\ ProcessIdle
    /\ FleetIdle
    /\ PendingIdle

StoreNext ==
    \/ \E k \in Providers : StoreEvaluation(k)
    \/ UpdateStatus

StoreSpec == StoreInit /\ [][StoreNext]_vars

\* ======================================================================
\* The two writers of context_service/services.py on their own
\* ======================================================================

ServiceNext ==
    \/ \E iid \in InterviewIds : WriteTranscriptInsert(iid)
    \/ WriteTranscriptPatch
    \/ \E iid \in InterviewIds : SaveTranscript(iid)
    \/ \E iid \in InterviewIds, k \in Providers : WriteEvaluation(iid, k, 850)

ServiceSpec == Init /\ [][ServiceNext]_vars

\* ======================================================================
\* The bot session step by step
\* ======================================================================

\* set_context_aggregator(aggregator): the context the aggregator shares
\* becomes the working message list of the tools
SetContextAggregator(initial) ==
    /\ ~context_aggregator
    /\ ~terminated
    /\ context_aggregator' = TRUE
    /\ messages' = initial
    /\ instruction' = IF initial # <<>> /\ initial[1].role = "system"
                      THEN <<initial[1]>> ELSE <<>>
    /\ last_call' = NoCall
    /\ UNCHANGED <<pipelineVars, entityVars, processVars, fleetVars, pendingVars, tool_result, frames, terminated, transcriptVars,
                   before, compactions>>

\* the aggregator pair appends the user's or the assistant's turn to the context
AppendTurn(m) ==
    /\ context_aggregator
    /\ ~terminated
    /\ Len(messages) < MaxMessages
    /\ messages' = Append(messages, m)
    /\ last_call' = NoCall
    /\ UNCHANGED <<pipelineVars, entityVars, processVars, fleetVars, pendingVars, context_aggregator, tool_result, frames, terminated,
                   transcriptVars, instruction, before, compactions>>

\* the transcript file forgets everything but its header
CleanContextAndSummarize_ResetsTranscript(arguments) ==
    /\ ~terminated
    /\ compactions < MaxCompactions
    /\ LET summary == Summary(arguments)
           error == ToolError(summary, context_aggregator)
           cleaned_messages == CleanedMessages(messages, summary)
       IN /\ error = "none"
          /\ messages' = cleaned_messages
          /\ tool_result' = ToolResult("context_cleaned", summary,
                                       Len(messages) - Len(cleaned_messages),
                                       Len(cleaned_messages))
          /\ compactions' = compactions + 1
          /\ transcript_log' = IF transcript_log = <<>> THEN <<>>
                             ELSE <<Head(transcript_log)>>
    /\ last_call' = [name |-> "clean_context_and_summarize", arguments |-> arguments]
    /\ before' = messages
    /\ UNCHANGED <<pipelineVars, entityVars, processVars, fleetVars, pendingVars, context_aggregator, frames, terminated,
                   transcript_initialized, instruction>>

\* clean_context_and_summarize(params), the whole handler
CleanContextAndSummarize(arguments) ==
    /\ ~terminated
    /\ compactions < MaxCompactions
    /\ LET summary == Summary(arguments)
           error == ToolError(summary, context_aggregator)
           cleaned_messages == CleanedMessages(messages, summary)
       IN IF error # "none"
          THEN /\ tool_result' = ToolResult("error", error, 0, 0)
               /\ UNCHANGED <<messages, compactions>>
          ELSE /\ messages' = cleaned_messages
               /\ tool_result' = ToolResult("context_cleaned", summary,
                                            Len(messages) - Len(cleaned_messages),
                                            Len(cleaned_messages))
               /\ compactions' = compactions + 1
    /\ last_call' = [name |-> "clean_context_and_summarize", arguments |-> arguments]
    /\ before' = messages
    /\ UNCHANGED <<pipelineVars, entityVars, processVars, fleetVars, pendingVars, context_aggregator, frames, terminated, transcriptVars,
                   instruction>>

\* end_conversation(params): the closing utterance, then the request to end
\* the task
EndConversation ==
    /\ ~terminated
    /\ Len(frames) + 2 <= MaxFrames
    /\ frames' = frames \o <<"TTSSpeakFrame", "EndTaskFrame">>
    /\ last_call' = [name |-> "end_conversation", arguments |-> ""]
    /\ before' = messages
    /\ UNCHANGED <<pipelineVars, entityVars, processVars, fleetVars, pendingVars, context_aggregator, messages, tool_result, terminated,
                   transcriptVars, instruction, compactions>>

\* the pipeline task acts on the EndTaskFrame and runner.run(task) returns
Terminate ==
    /\ ~terminated
    /\ \E i \in 1..Len(frames) : frames[i] = "EndTaskFrame"
    /\ terminated' = TRUE
    /\ last_call' = NoCall
    /\ UNCHANGED <<pipelineVars, entityVars, processVars, fleetVars, pendingVars, context_aggregator, messages, tool_result, frames,
                   transcriptVars, instruction, before, compactions>>

\* handle_transcript_update(processor, frame): nothing for a frame without
\* messages; the header on the first write; then one line per message
HandleTranscriptUpdate(frame_messages) ==
    /\ ~terminated
    /\ Len(transcript_log) + Len(frame_messages) <= MaxLog
    /\ IF frame_messages = <<>>
       THEN UNCHANGED transcriptVars
       ELSE /\ transcript_initialized' = TRUE
            /\ transcript_log' =
                  (IF transcript_initialized THEN transcript_log ELSE <<"header">>)
                      \o [i \in 1..Len(frame_messages) |-> frame_messages[i].role]
    /\ last_call' = NoCall
    /\ UNCHANGED <<pipelineVars, entityVars, processVars, fleetVars, pendingVars, toolVars, instruction, before, compactions>>

FrameMessages ==
    {<<>>} \cup {<<m>> : m \in TurnMessages}
    \cup {<<Message("assistant", "question"), Message("user", "answer")>>}

SessionNext ==
    \/ \E initial \in InitialMessages : SetContextAggregator(initial)
    \/ \E m \in TurnMessages : AppendTurn(m)
    \/ \E arguments \in Arguments : CleanContextAndSummarize(arguments)
    \/ EndConversation
    \/ Terminate
    \/ \E fm \in FrameMessages : HandleTranscriptUpdate(fm)

SessionSpec == Init /\ [][SessionNext]_vars

\* ======================================================================
\* The Interview entity step by step
\* ======================================================================

\* Interview() with no argument
Construct ==
    /\ built_by = "none"
    /\ interview_obj' = Interview(Absent, Absent, Absent, <<>>)
    /\ built_by' = "defaults"
    /\ UNCHANGED <<pipelineVars, sessionVars, processVars, fleetVars, pendingVars, source_data, build_error>>

\* interview = self._create_interview_from_payload(payload)
CreateInterview(payload) ==
    /\ built_by = "none"
    /\ interview_obj' = InterviewFromPayload(payload)
    /\ built_by' = "payload"
    /\ source_data' = [NoSource EXCEPT !.payload = <<payload>>]
    /\ UNCHANGED <<pipelineVars, sessionVars, processVars, fleetVars, pendingVars, build_error>>

\* self._create_interview_from_payload(payload) on a payload that is not a
\* mapping: the first payload.get raises and no Interview is built
CreateInterviewRaises(payload) ==
    /\ built_by = "none"
    /\ BuilderError(payload) # "none"
    /\ build_error' = BuilderError(payload)
    /\ built_by' = "payload_raised"
    /\ UNCHANGED <<pipelineVars, sessionVars, processVars, fleetVars, pendingVars, source_data, interview_obj>>

\* Interview.from_dict(data)
BuildFromDict(data) ==
    /\ built_by = "none"
    /\ interview_obj' = FromDict(data)
    /\ built_by' = "from_dict"
    /\ source_data' = [NoSource EXCEPT !.payload = <<data>>]
    /\ UNCHANGED <<pipelineVars, sessionVars, processVars, fleetVars, pendingVars, build_error>>

\* Interview.from_legacy_format(legacy_data)
BuildFromLegacyFormat(blocks) ==
    /\ built_by = "none"
    /\ interview_obj' = FromLegacyFormat(blocks)
    /\ built_by' = "from_legacy_format"
    /\ source_data' = [NoSource EXCEPT !.blocks = blocks]
    /\ UNCHANGED <<pipelineVars, sessionVars, processVars, fleetVars, pendingVars, build_error>>

\* interview.add_transcript_entry(speaker, text)
AddTranscriptEntry(speaker, text) ==
    /\ interview_obj.built
    /\ Len(interview_obj.transcript_data.structured_transcript) < MaxEntries
    /\ interview_obj' = AddTranscriptEntryTo(interview_obj, speaker, text)
    /\ UNCHANGED <<pipelineVars, sessionVars, processVars, fleetVars, pendingVars, source_data, built_by, build_error>>

\* interview.add_question_answer(question_text, ideal_answer)
AddQuestionAnswer(question_text, ideal_answer) ==
    /\ interview_obj.built
    /\ Len(interview_obj.questions_and_answers) < MaxQuestions
    /\ interview_obj' = AddQuestionAnswerTo(interview_obj, question_text, ideal_answer)
    /\ UNCHANGED <<pipelineVars, sessionVars, processVars, fleetVars, pendingVars, source_data, built_by, build_error>>

EntityNext ==
    \/ Construct
    \/ \E payload \in Payloads : CreateInterview(payload)
    \/ \E payload \in NonMappings : CreateInterviewRaises(payload)
    \/ \E data \in Dicts : BuildFromDict(data)
    \/ \E blocks \in LegacyTranscripts : BuildFromLegacyFormat(blocks)
    \/ \E speaker \in {"interviewer", "candidate"} : AddTranscriptEntry(speaker, "a2")
    \/ AddQuestionAnswer("q", "ideal")

EntitySpec == Init /\ [][EntityNext]_vars

\* ======================================================================
\* Two bot sessions in one process
\* ======================================================================

\* run_bot for session s: messages = [system prompt], context =
\* LLMContext(messages), context_aggregator = LLMContextAggregatorPair(context),
\* then the module's _context_aggregator = context_aggregator
RunBot(s) ==
    /\ contexts[s] = <<>>
    /\ contexts' = [contexts EXCEPT ![s] = <<SystemInstruction>>]
    /\ aggregator_owner' = s
    /\ caller' = NoSession
    /\ UNCHANGED <<pipelineVars, sessionVars, entityVars, fleetVars, pendingVars>>

\* session s's aggregator pair appends a turn to that session's context
SessionTurn(s, m) ==
    /\ contexts[s] # <<>>
    /\ Len(contexts[s]) < MaxMessages
    /\ contexts' = [contexts EXCEPT ![s] = Append(@, m)]
    /\ caller' = NoSession
    /\ UNCHANGED <<pipelineVars, sessionVars, entityVars, fleetVars, pendingVars, aggregator_owner>>

\* the LLM of session s calls clean_context_and_summarize: the handler is the
\* module's function and reads the module's _context_aggregator
SessionCompaction(s, arguments) ==
    /\ contexts[s] # <<>>
    /\ LET summary == Summary(arguments)
           error == ToolError(summary, aggregator_owner # NoSession)
       IN IF error # "none"
          THEN UNCHANGED contexts
          ELSE contexts' = [contexts EXCEPT ![aggregator_owner] =
                                CleanedMessages(@, summary)]
    /\ caller' = s
    /\ UNCHANGED <<pipelineVars, sessionVars, entityVars, fleetVars, pendingVars, aggregator_owner>>

ProcessNext ==
    \/ \E s \in Sessions : RunBot(s)
    \/ \E s \in Sessions, m \in TurnMessages : SessionTurn(s, m)
    \/ \E s \in Sessions, arguments \in Arguments : SessionCompaction(s, arguments)

ProcessSpec == Init /\ [][ProcessNext]_vars

\* ======================================================================
\* Two dispatcher instances on one queue
\* ======================================================================

fleetFrame ==
    <<transcripts, agentVars, writer, histVars, evalVars, sessionVars,
      entityVars, processVars, pendingVars>>

\* start(): self.running = True and the loop is entered
AgentStart(a) ==
    /\ agents[a].pc = "constructed"
    /\ agents' = [agents EXCEPT ![a].pc = "fetch"]
    /\ UNCHANGED <<queue, status, evaluations, fleetFrame>>

\* a fetch that takes the row it returns out of the queue
AgentFetch_Claims(a) ==
    /\ agents[a].pc = "fetch"
    /\ \E requestFails \in BOOLEAN :
         LET t == GetNextEvaluationTask(queue, requestFails) IN
         /\ agents' = [agents EXCEPT ![a] =
               Agent(IF t = NoTask THEN "sleep" ELSE "process", t, NoResults, 0)]
         /\ queue' = IF t = NoTask THEN queue ELSE Tail(queue)
    /\ UNCHANGED <<status, evaluations, fleetFrame>>

\* _process_pending_evaluations of instance a: the GET of the oldest row; the
\* row stays in the queue and nothing records that a has it
AgentFetch(a) ==
    /\ agents[a].pc = "fetch"
    /\ \E requestFails \in BOOLEAN :
         LET t == GetNextEvaluationTask(queue, requestFails) IN
         agents' = [agents EXCEPT ![a] =
               Agent(IF t = NoTask THEN "sleep" ELSE "process", t, NoResults, 0)]
    /\ UNCHANGED <<queue, status, evaluations, fleetFrame>>

\* _process_evaluation_task of instance a up to the store: the checks of the
\* task, the build and _run_llm_evaluation
AgentProcess(a) ==
    /\ agents[a].pc = "process"
    /\ LET t == agents[a].evaluation_task IN
       IF t.interview_id = None \/ t.payload = "empty" \/ BuildRaises(t.payload)
       THEN agents' = [agents EXCEPT ![a].pc = "sleep"]
       ELSE LET d == InterviewData(CreateInterviewFromPayload(t.payload)) IN
            \E res \in {ErrorResults}
                        \cup {WrapResult(r) :
                                r \in UNION {RunFullEvaluation(d, outs) :
                                               outs \in Settlements(d)}} :
               agents' = [agents EXCEPT ![a].pc = "store",
                                        ![a].evaluation_results = res]
    /\ UNCHANGED <<queue, status, evaluations, fleetFrame>>

\* the rows _store_evaluation_results has created when n creates have returned
StoredRows(t, res, n) ==
    IF ~res.has_evaluations THEN {}
    ELSE {Evaluation(t.interview_id, ModelNames[k],
                     RecordScore(res.evaluation[k]), res.evaluation[k]) :
             k \in 1..n}

\* _store_evaluation_results of instance a: the three creates, then the status
\* update; an exception ends it after n creates or at the update
AgentStore(a) ==
    /\ agents[a].pc = "store"
    /\ LET t == agents[a].evaluation_task
           res == agents[a].evaluation_results
       IN \E n \in 0..3, updated \in BOOLEAN :
            /\ updated => n = 3
            /\ BagCardinality(evaluations) + Cardinality(StoredRows(t, res, n))
                  <= MaxRecords
            /\ evaluations' = evaluations (+) SetToBag(StoredRows(t, res, n))
            /\ status' = IF updated
                         THEN [status EXCEPT ![t.interview_id] = UpdateData(res)]
                         ELSE status
            /\ agents' = [agents EXCEPT ![a].pc = "sleep",
                              ![a].stored = Cardinality(StoredRows(t, res, n))]
    /\ UNCHANGED <<queue, fleetFrame>>

\* await asyncio.sleep(self.poll_interval), then the next tick
AgentSleep(a) ==
    /\ agents[a].pc = "sleep"
    /\ agents' = [agents EXCEPT ![a] = Agent("fetch", NoTask, NoResults, 0)]
    /\ UNCHANGED <<queue, status, evaluations, fleetFrame>>

FleetNext ==
    \/ \E row \in QueueRows : Enqueue(row[1], row[2])
    \/ \E a \in Agents :
          \/ AgentStart(a) \/ AgentFetch(a) \/ AgentProcess(a)
          \/ AgentStore(a) \/ AgentSleep(a)

FleetSpec == Init /\ [][FleetNext]_vars

\* ======================================================================
\* InterviewEvaluator.get_pending_evaluations
\* ======================================================================

\* the call: tasks = [] and the loop is entered
CallGetPendingEvaluations ==
    /\ ppc = "idle"
    /\ ppc' = "loop"
    /\ tasks' = <<>>
    /\ UNCHANGED <<pipelineVars, sessionVars, entityVars, processVars, fleetVars>>

\* one round of "while True": task = await get_evaluation_task(); if not
\* task: break; tasks.append(task). The GET takes nothing out of the queue,
\* and a failed GET is reported as no task.
PendingFetch ==
    /\ ppc = "loop"
    /\ \E requestFails \in BOOLEAN :
         LET task == GetNextEvaluationTask(queue, requestFails) IN
         IF task = NoTask
         THEN /\ ppc' = "returned"
              /\ UNCHANGED tasks
         ELSE /\ Len(tasks) < MaxCollected
              /\ tasks' = Append(tasks, task)
              /\ UNCHANGED ppc
    /\ UNCHANGED <<pipelineVars, sessionVars, entityVars, processVars, fleetVars>>

PendingNext ==
    \/ \E row \in QueueRows : Enqueue(row[1], row[2])
    \/ CallGetPendingEvaluations
    \/ PendingFetch

PendingSpec == Init /\ [][PendingNext]_vars

\* ======================================================================
\* Properties
\* ======================================================================

Malformed(t) == t.interview_id = None \/ t.payload = "empty"
WellFormed(t) == t.interview_id # None /\ t.payload = "complete"
StorePcs == {"store1", "store2", "store3", "status"}
ErrorKinds == {"error", "parse_error", "api_error", "no_key"}

\* C1: a task that a tick has finished with (evaluated and stored, or failed)
\* is not evaluated again by a later tick.
C1_ExactlyOnce ==
    pc \in StorePcs => evaluation_task.id \notin processed

\* C2: whenever a well-formed task waits in the queue behind a malformed head
\* entry and the dispatcher is running, the dispatcher eventually finishes a
\* tick on the well-formed task (or is stopped).
C2_MalformedDoesNotBlock ==
    \A n \in 2..MaxTasks :
        (/\ running
         /\ Len(queue) >= n
         /\ Malformed(queue[1])
         /\ WellFormed(queue[n])
         /\ queue[n].id \notin processed)
        ~> (~running \/ (Len(queue) >= n /\ queue[n].id \in processed))

\* C3: an exception raised in a step of a tick never leaves start(): the tick
\* ends in a handler and the loop comes back to its test, to poll again.
C3_NoExceptionEscapes ==
    /\ pc # "crashed"
    /\ raised # "none" => pc \in StorePcs \cup {"sleep", "loop"}
    /\ (raised \in {"fetch", "build", "store", "status"}) => pc \in {"sleep", "loop"}

C3_Witness == raised = "store" /\ pc = "loop" /\ running

\* C4: the steps of a tick are a prefix of fetched, built, evaluated, stored,
\* acknowledged; after an exception in a step none of the later steps is
\* performed and the task is marked failed.
StepOrder == <<"fetched", "built", "evaluated", "stored", "acknowledged">>
Performed == SelectSeq(steps, LAMBDA x : x # "failed")
C4_FixedOrderAndFailure ==
    /\ Performed = SubSeq(StepOrder, 1, Len(Performed))
    /\ raised = "build" => Len(Performed) <= 1
    /\ raised = "evaluate" => Len(Performed) <= 2
    /\ raised = "store" => Len(Performed) <= 3
    /\ raised = "status" => Len(Performed) <= 4
    /\ (raised \in {"build", "evaluate", "store", "status"} /\ pc \in {"sleep", "loop"})
          => (steps # <<>> /\ steps[Len(steps)] = "failed")

\* C5: an interview whose status is evaluated has a transcript record.
C5_EvaluatedHasTranscript ==
    \A i \in InterviewIds : status[i] = "evaluated" => i \in transcripts

\* C6: a status becomes evaluated only from completed.
C6_EvaluatedOnlyFromCompleted ==
    [][\A i \in InterviewIds :
          (status[i] # "evaluated" /\ status'[i] = "evaluated")
              => status[i] = "completed"]_vars

\* C7: the dispatcher moves an interview from completed to evaluated only when
\* the aggregation succeeded and a provider record is stored for the interview.
AggregationSucceeded(res) ==
    res.has_evaluations /\ res.evaluation[1].kind = "aggregated"
C7_EvaluatedOnlyAfterAggregation ==
    [][\A i \in InterviewIds :
          (pc = "status" /\ status[i] = "completed" /\ status'[i] = "evaluated")
              => /\ AggregationSucceeded(evaluation_results)
                 /\ \E row \in BagToSet(evaluations) : row.interview_id = i]_vars

\* C8: when some but not all providers returned an error, the aggregation ran
\* and the store went through, the interview's status is evaluated.
PartialEvaluation(res) ==
    /\ AggregationSucceeded(res)
    /\ \E i \in Providers : res.evaluation[1].evaluations[i].kind \in ErrorKinds
    /\ \E i \in Providers : res.evaluation[1].evaluations[i].kind = "result"
FannedOut == \E i \in Providers : provider[i] # Pending
C9_FanOutIsolated ==
    (epc = "returned" /\ FannedOut) =>
        /\ \A i \in Providers : provider[i] # Pending
        /\ eresult.kind = "aggregated"
        /\ DOMAIN eresult.evaluations = Providers
        /\ \A i \in Providers :
              IF provider[i].kind = "raised"
              THEN eresult.evaluations[i].kind = "error"
              ELSE eresult.evaluations[i] = provider[i]

C9_Witness ==
    /\ epc = "returned"
    /\ provider[1].kind = "raised"
    /\ provider[2].kind = "api_error"
    /\ provider[3].kind = "result"
    /\ eresult.kind = "aggregated"
    /\ eresult.evaluations[3] = provider[3]

\* C10: the returned overall score is the mean of the valid provider scores
\* only, rounded to the nearest tenth; with no valid score it is 0 and nothing
\* is divided by zero.
ValidProviders ==
    {i \in Providers : provider[i].kind = "result" /\ provider[i].has_score}
SumValid ==
    LET f[S \in SUBSET Providers] ==
            IF S = {} THEN 0
            ELSE LET x == CHOOSE y \in S : TRUE
                 IN provider[x].overall_score + f[S \ {x}]
    IN f[ValidProviders]
Abs(x) == IF x < 0 THEN -x ELSE x
C10_MeanOfValidScores ==
    (epc = "returned" /\ FannedOut) =>
        LET n == Cardinality(ValidProviders) IN
        /\ eresult.kind # "failed"
        /\ IF n = 0 THEN eresult.overall_score = 0
           ELSE 2 * Abs(eresult.overall_score * n - SumValid) <= n

C10_Witness ==
    /\ epc = "returned"
    /\ eresult.kind = "aggregated"
    /\ provider[1].kind = "api_error"
    /\ Cardinality(ValidProviders) = 2
    /\ eresult.overall_score * 2 # SumValid

\* C11: when the fan-out ran and no provider returned a valid numeric score,
\* the returned verdict has overall score 0 and the recommendation
\* "Evaluation failed".
C11_ZeroValidEvaluationFailed ==
    (epc = "returned" /\ FannedOut /\ ValidProviders = {}) =>
        /\ eresult.overall_score = 0
        /\ eresult.recommendation = "Evaluation failed"

\* C12: the recommendation is a total function of the aggregated score (the
\* mean of the valid scores) with inclusive lower bounds: at least 85 gives
\* "Strong Yes", at least 70 and below 85 gives "Maybe", below 70 gives "No".
AggregatedScore ==
    IF ValidProviders = {} THEN <<0, 1>> ELSE <<SumValid, Cardinality(ValidProviders)>>
C12_RecommendationThresholds ==
    (epc = "returned" /\ FannedOut) =>
        LET m == AggregatedScore IN
        /\ eresult.recommendation \in {"Strong Yes", "Maybe", "No"}
        /\ eresult.recommendation = "Strong Yes" <=> m[1] >= 850 * m[2]
        /\ eresult.recommendation = "Maybe"
              <=> (m[1] >= 700 * m[2] /\ m[1] < 850 * m[2])
        /\ eresult.recommendation = "No" <=> m[1] < 700 * m[2]

C12_Witness ==
    /\ epc = "returned"
    /\ Cardinality(ValidProviders) = 3
    /\ SumValid = 850 * 3
    /\ eresult.recommendation = "Strong Yes"

\* C13: a clean_context_and_summarize call with a non-empty summary s leaves
\* the working message list holding exactly the original system instruction,
\* if there is one, followed by the system message "Interview Progress
\* Summary: s"; every other earlier message is gone.
Compacted ==
    /\ last_call.name = "clean_context_and_summarize"
    /\ Summary(last_call.arguments) # ""
    /\ context_aggregator
C13_CompactionReplacesList ==
    Compacted =>
        messages = instruction \o <<SummaryMessage(Summary(last_call.arguments))>>

\* C14: right after a compaction that follows an earlier compaction, whatever
\* number of turns came between them, the working message list has exactly
\* two messages, the second being the latest summary and the first being the
\* system instruction where the session has one.
C14_CompactionIdempotent ==
    (Compacted /\ compactions >= 2) =>
        /\ Len(messages) = 2
        /\ messages[2] = SummaryMessage(Summary(last_call.arguments))
        /\ instruction # <<>> => messages[1] = instruction[1]

C14_Witness ==
    /\ Compacted
    /\ compactions = 2
    /\ instruction # <<>>
    /\ Len(before) = 4
    /\ Len(messages) = 2

\* C15: a clean_context_and_summarize call whose summary is empty or missing
\* reports the error "Summary is required" and leaves the working message
\* list as it was.
C15_SummaryRequired ==
    (last_call.name = "clean_context_and_summarize" /\ Summary(last_call.arguments) = "")
        => /\ tool_result.status = "error"
           /\ tool_result.message = "Summary is required"
           /\ messages = before

C15_Witness ==
    /\ last_call.name = "clean_context_and_summarize"
    /\ last_call.arguments = Missing
    /\ context_aggregator
    /\ Len(messages) >= 2
    /\ tool_result.message = "Summary is required"

\* C16: no clean_context_and_summarize call changes the transcript file: its
\* lines are the same before and after the call.
C16_TranscriptUntouched ==
    [][last_call'.name = "clean_context_and_summarize"
          => /\ transcript_log' = transcript_log
             /\ transcript_initialized' = transcript_initialized]_vars

C16_Witness ==
    /\ Compacted
    /\ Len(messages) < Len(before)
    /\ Len(transcript_log) >= 3

\* C17: once end_conversation has pushed its two frames, no later
\* clean_context_and_summarize call changes the working message list.
Ended == \E i \in 1..Len(frames) : frames[i] = "EndTaskFrame"
C17_EndIsTerminal ==
    [][(Ended /\ last_call'.name = "clean_context_and_summarize")
          => messages' = messages]_vars

\* C18: the exported forms of a built Interview carry the fixed pair
\* ("Candidate", "A") and never the name it was given, and for payloads that
\* differ only in the candidate's name the exported forms of the Interviews
\* built from them (Candidate.to_dict, to_llm_evaluation_format, to_dict and
\* the request for the providers) are equal.
Anonymous == [first_name |-> "Candidate", last_name |-> "A"]
Exports(iv) ==
    <<CandidateToDict(iv.candidate), ToLlmEvaluationFormat(iv), ToDict(iv),
      EvaluationInput(LlmEvaluationData(iv))>>
C18_CandidateAnonymized ==
    interview_obj.built =>
        /\ CandidateToDict(interview_obj.candidate) = Anonymous
        /\ ToLlmEvaluationFormat(interview_obj).candidate = Anonymous
        /\ ToDict(interview_obj).llm.candidate = Anonymous
        /\ LET request == EvaluationInput(LlmEvaluationData(interview_obj))
           IN request # Absent => request[1].candidate = Anonymous
        /\ built_by = "payload" =>
              \A c1, c2 \in CandidateData :
                  Exports(InterviewFromPayload([source_data.payload[1] EXCEPT !.candidate = c1]))
                    = Exports(InterviewFromPayload([source_data.payload[1] EXCEPT !.candidate = c2]))

C18_Witness ==
    /\ built_by = "payload"
    /\ source_data.payload[1].candidate # Absent
    /\ interview_obj.candidate.original_first_name = "Ada"
    /\ ToDict(interview_obj).llm.candidate = Anonymous

\* C19: for every built Interview the stored full text equals the text
\* obtained by joining its structured entries with the blank-line separator,
\* also after add_transcript_entry calls.
C19_TranscriptRoundTrip ==
    interview_obj.built =>
        interview_obj.transcript_data.full_text_transcript
            = JoinEntries(interview_obj.transcript_data.structured_transcript)

\* C20: the Interview built from a queue payload has exactly the Q&A items of
\* the payload, in payload order, when the payload has some, and exactly one
\* generic Q&A when it has none.
C20_QuestionsFromPayload ==
    (built_by = "payload") =>
        LET given == QuestionAnswers(source_data.payload[1].questions_and_answers)
        IN IF given # <<>>
           THEN interview_obj.questions_and_answers = given
           ELSE Len(interview_obj.questions_and_answers) = 1

\* C21: the payload builder raises nothing for a payload that is a mapping,
\* whatever optional fields are missing or empty, and it raises
\* MalformedPayloadError, and no other error, when the payload is not a
\* mapping.
C21_BuilderErrors ==
    /\ built_by = "payload" => (interview_obj.built /\ build_error = "none")
    /\ built_by = "payload_raised" => build_error = "MalformedPayloadError"

\* C22: storing the evaluation of an interview again overwrites: the
\* evaluations table never holds more than one record for one interview id
\* and one provider model.
RecordsOf(i, model) ==
    LET rows == {row \in BagToSet(evaluations) :
                    row.interview_id = i /\ row.evaluator_llm_model = model}
        count[S \in SUBSET rows] ==
            IF S = {} THEN 0
            ELSE LET row == CHOOSE x \in S : TRUE
                 IN CopiesIn(row, evaluations) + count[S \ {row}]
    IN count[rows]
C22_IdempotentReevaluation ==
    \A i \in InterviewIds, k \in Providers : RecordsOf(i, ModelNames[k]) <= 1

C24_ReportsInsert ==
    [][(writer' # writer /\ writer'.stage = "idle") =>
          /\ writer'.result \in {"True", "False"}
          /\ writer.stage = "patch" => writer'.result = "True"
          /\ writer'.result = "True" =>
                (writer.stage = "patch" /\ writer.interview_id \in transcripts)
          /\ writer'.result = "False" =>
                (writer.stage = "idle" /\ UNCHANGED <<transcripts, status>>)]_vars

\* the insert succeeded, the status update failed, True was returned
C24_Witness ==
    /\ writer.stage = "idle"
    /\ writer.result = "True"
    /\ transcripts # {}
    /\ \A i \in transcripts : status[i] # "completed"

\* C25: a provider whose response the JSON decoder rejects yields the
\* parse-error value with the raw response; the value is kept in the
\* evaluations map, has no overall score, and the returned score is the mean
\* of the other providers' valid scores alone.
Unparsed ==
    {i \in Providers :
        content[i] # NoContent /\ JsonLoads(content[i]) = "JSONDecodeError"}
SumOver(S) ==
    LET f[T \in SUBSET Providers] ==
            IF T = {} THEN 0
            ELSE LET x == CHOOSE y \in T : TRUE
                 IN provider[x].overall_score + f[T \ {x}]
    IN f[S]
C25_ParseErrorKept ==
    (epc = "returned" /\ FannedOut) =>
        /\ \A i \in Unparsed :
              /\ eresult.kind = "aggregated"
              /\ eresult.evaluations[i].kind = "parse_error"
              /\ ~eresult.evaluations[i].has_score
              /\ RawResponse(eresult.evaluations[i], content[i]) = content[i]
        /\ LET others == ValidProviders \ Unparsed
               n == Cardinality(others)
           IN IF n = 0 THEN eresult.overall_score = 0
              ELSE 2 * Abs(eresult.overall_score * n - SumOver(others)) <= n

C25_Witness ==
    /\ epc = "returned"
    /\ content[1].shape = "text"
    /\ eresult.evaluations[1].kind = "parse_error"
    /\ provider[2] = Outcome("result", TRUE, 850)
    /\ provider[3] = Outcome("result", TRUE, 700)
    /\ eresult.overall_score = 775

\* C26: a response that is a JSON evaluation document inside a markdown code
\* fence settles as the document without the fence does, and not as a parse
\* error.
Unfenced(c) == [c EXCEPT !.shape = "json_object"]
C26_FenceStripped ==
    \A i \in Providers :
        (provider[i] # Pending /\ content[i].shape = "fenced_json_object") =>
            /\ provider[i] = EvaluateStructured(Unfenced(content[i]))
            /\ provider[i].kind # "parse_error"

\* C27: between two consecutive queue fetches the dispatcher sleeps one poll
\* interval: a fetch is entered only from the loop test, the loop test only
\* from a completed sleep (or from start()), and every tick, whether it found
\* no task, handled one or failed, ends in the sleep.
C27_SleepBetweenFetches ==
    [][/\ (pc' = "fetch" /\ pc # "fetch") => pc = "loop"
       /\ (pc' = "loop" /\ pc # "loop") => pc \in {"constructed", "sleep"}
       /\ pc' = "constructed" => pc = "constructed"
       /\ (pc = "fetch" /\ pc' # "fetch") =>
             pc' \in {"sleep", "validate"}]_vars

\* a tick that handled a task has slept and the next fetch is due
C27_Witness ==
    /\ pc = "fetch"
    /\ processed # {}

\* C28: one task is in flight at a time: the tick takes one task from the
\* fetch, and while that task is validated, built, evaluated and stored the
\* dispatcher holds the same task and moves only forward through these steps;
\* no loop test and no fetch happens until the tick has slept.
Rank(p) ==
    CASE p = "validate" -> 1 [] p = "build" -> 2 [] p = "evaluate" -> 3
      [] p = "store1" -> 4 [] p = "store2" -> 5 [] p = "store3" -> 6
      [] p = "status" -> 7 [] p = "sleep" -> 8 [] OTHER -> 0
InFlight(p) == Rank(p) \in 1..7
C29_OwnMessageList ==
    [][\A s \in Sessions :
          caller' = s =>
              \A t \in Sessions \ {s} : contexts'[t] = contexts[t]]_vars

\* C30: no fetch claims the row it returns: the queue and the statuses are as
\* before and the row is still the oldest, so the other instance's fetch
\* returns it too; both instances then evaluate it and store their records.
C30_NoClaimStep ==
    [][\A a \in Agents :
          (agents[a].pc = "fetch" /\ agents'[a].pc = "process") =>
              /\ queue' = queue
              /\ status' = status
              /\ agents'[a].evaluation_task = Head(queue')]_vars

\* both instances hold the same task and each has stored its three records
C30_Witness ==
    /\ queue # <<>>
    /\ \A a \in Agents :
          /\ agents[a].pc = "sleep"
          /\ agents[a].evaluation_task = Head(queue)
          /\ agents[a].stored = 3
    /\ \A k \in Providers :
          RecordsOf(Head(queue).interview_id, ModelNames[k]) = 2

\* C31: once stop() has been called on a running loop, no new tick begins:
\* the loop finishes the tick and the sleep in progress, reads the flag at the
\* loop test and start() returns.
Stopped == ~running /\ pc # "constructed"
C31_CooperativeStop ==
    /\ [][(Stopped /\ pc # "fetch") => pc' # "fetch"]_vars
    /\ (Stopped ~> pc = "returned")

\* stop() came while a task was in hand, and start() has returned
C31_Witness ==
    /\ pc = "returned"
    /\ ~running
    /\ processed # {}

\* C32: for a well-formed task that the dispatcher has evaluated, the engine
\* went to the providers (the result is an aggregation with one entry per
\* provider) and the recommendation handed to the store is one of the labels
\* of the threshold table.
Labels == {"Strong Yes", "Maybe", "No"}
C32_WellFormedReachesProviders ==
    (/\ WellFormed(evaluation_task)
     /\ pc \in StorePcs \cup {"sleep"}
     /\ evaluation_results.has_evaluations) =>
        /\ AggregationSucceeded(evaluation_results)
        /\ DOMAIN evaluation_results.evaluation[1].evaluations = Providers
        /\ evaluation_results.recommendation \in Labels

\* C33: the recommendation agrees with the returned overall score (the mean
\* rounded to one decimal): at least 85 exactly with "Strong Yes", from 70 to
\* below 85 exactly with "Maybe", below 70 exactly with "No".
C33_LabelAgreesWithReturnedScore ==
    (epc = "returned" /\ eresult.kind = "aggregated") =>
        /\ eresult.overall_score >= 850 <=> eresult.recommendation = "Strong Yes"
        /\ (eresult.overall_score >= 700 /\ eresult.overall_score < 850)
              <=> eresult.recommendation = "Maybe"
        /\ eresult.overall_score < 700 <=> eresult.recommendation = "No"

\* C34: right after a compaction the working message list holds at most one
\* "Interview Progress Summary" message, the one of that compaction; the
\* summaries of earlier compactions are gone.
IsSummary(m) ==
    \E a \in Arguments \ {Missing, ""} : m = SummaryMessage(Summary(a))
SummaryPositions == {i \in 1..Len(messages) : IsSummary(messages[i])}
C34_OneSummary ==
    Compacted =>
        /\ Cardinality(SummaryPositions) <= 1
        /\ \A i \in SummaryPositions :
              messages[i] = SummaryMessage(Summary(last_call.arguments))

\* C35: the counts a successful compaction reports: remaining_messages is the
\* length of the new list, messages_removed + remaining_messages is the
\* length of the list before the call, and messages_removed is not negative.
C35_CountsExact ==
    (Compacted /\ tool_result.status = "context_cleaned") =>
        /\ tool_result.remaining_messages = Len(messages)
        /\ tool_result.messages_removed + tool_result.remaining_messages = Len(before)
        /\ tool_result.messages_removed >= 0

\* C36: the status of an interview never moves backward: once it is
\* evaluated it stays evaluated, and once it is completed it does not return
\* to scheduled.
StatusRank(s) ==
    CASE s = "scheduled" -> 0 [] s = "completed" -> 1 [] s = "evaluated" -> 2
C36_StatusNeverBackward ==
    [][\A i \in InterviewIds : StatusRank(status'[i]) >= StatusRank(status[i])]_vars

\* C37: an interview whose status is completed has a transcript record,
\* inserted before the status was updated.
C37_CompletedHasTranscript ==
    \A i \in InterviewIds : status[i] = "completed" => i \in transcripts

\* write_transcript has returned True for an interview that is now completed
C37_Witness ==
    /\ writer.result = "True"
    /\ \E i \in InterviewIds : status[i] = "completed" /\ i \in transcripts

\* C38: add_question_answer keeps the Q&A positions unique and strictly
\* increasing in list order: when they are so before the call, contiguous or
\* not, they are so after it.
Increasing(qas) ==
    \A i, j \in 1..Len(qas) : i < j => qas[i].position < qas[j].position
C38_PositionsMonotonic ==
    [][(/\ interview_obj.built
        /\ interview_obj'.questions_and_answers # interview_obj.questions_and_answers
        /\ Increasing(interview_obj.questions_and_answers))
          => Increasing(interview_obj'.questions_and_answers)]_vars

\* C39: get_pending_evaluations collects each pending task once: at no point
\* of the call is a task in its list twice.
C39_EachTaskOnce ==
    \A i, j \in 1..Len(tasks) : i # j => tasks[i] # tasks[j]

====
